---- MODULE Spec2Model ----
(***************************************************************************)
(* Two multi-pong clients (host and guest), each running one GameEngine    *)
(* (src/src/game/engine.js) driven by the application glue of              *)
(* src/src/app.js, joined by an ordered, reliable data channel.            *)
(*                                                                         *)
(* Discretisation.  The engine computes in floating point; here positions  *)
(* are integer grid cells, velocities are cells per nominal frame (16 ms)  *)
(* and timestamps are counted in nominal frames.  Every arithmetic step of *)
(* the source is kept; a quotient or square root is rounded to the nearest *)
(* integer (RoundDiv, Isqrt).  Math.random() is a nondeterministic input.  *)
(*                                                                         *)
(* Specifications.  Spec is the game between two clients whose             *)
(* Connections are established: it takes the delivery of a sent message as *)
(* given (channel).  ConnSpec is the life of the two Connections           *)
(* (src/src/network/connection.js) and their Peers (peer.js) from          *)
(* construction on, driven by the events of the browser's data channel,    *)
(* peer connection and timers; a channel's readyState may be observed      *)
(* before its queued open or close event is dispatched, and a queued event *)
(* is dispatched even if the Peer has been destroyed in between.           *)
(* SignalSpec is the exchange of offer and answer (initAsHost,             *)
(* initAsGuest, processAnswer) from the same initial state, and            *)
(* FairSignalSpec is SignalSpec in which an armed timer fires.             *)
(* EngineSpec is one GameEngine on its own, called from a set of engine   *)
(* states: update, startGame, pauseGame, resumeGame, updatePaddlePosition. *)
(***************************************************************************)
EXTENDS Integers, Sequences, FiniteSets, TLC

(* ------------------------------ bounds ------------------------------- *)

\* Capacity of each direction of the data channel (messages in flight).
MaxQueue == 2

\* Largest timestamp handed to update() / returned by performance.now().
MaxTimestamp == 1

\* How many times a player presses Ready or AGAIN.
MaxClicks == 1

\* How many times a player moves the pointer over the canvas.
MaxMoves == 1

\* Both browsers render at the display rate: while both game loops run,
\* neither side is more than MaxSkew frames ahead of the other.
MaxSkew == 1

\* How far beyond the top or bottom edge a ball nobody resets is followed.
MaxOvershoot == 3

(* ----------------------------- settings ------------------------------ *)

\* settings.json, scaled to the grid.  The README's default winScore is 3;
\* 2 is enough for a point that ends the game and one that does not.
settings ==
  [ fieldWidth         |-> 6,
    fieldHeight        |-> 12,
    paddleWidth        |-> 2,
    paddleHeight       |-> 2,
    ballRadius         |-> 1,
    initialBallSpeed   |-> 2,
    ballSpeedIncrement |-> 1,
    maxBallSpeed       |-> 3,
    winScore           |-> 2 ]

\* Frame time assumed when the elapsed time is invalid: 0.016 s = 1 frame.
NominalFrame == 1

\* Cap on the elapsed time of one tick: 0.1 s in the source, 2 frames here.
MaxDeltaTime == 2

(* ------------------------------ helpers ------------------------------ *)

Side == {"host", "guest"}

Other(s) == IF s = "host" THEN "guest" ELSE "host"

Abs(n) == IF n < 0 THEN -n ELSE n

Sign(n) == IF n > 0 THEN 1 ELSE IF n < 0 THEN -1 ELSE 0

Min(a, b) == IF a < b THEN a ELSE b

Max(a, b) == IF a > b THEN a ELSE b

\* a / b for b > 0, rounded to the nearest integer (ties away from zero).
RoundDiv(a, b) == Sign(a) * ((2 * Abs(a) + b) \div (2 * b))

\* Math.sqrt(n) rounded to the nearest integer.
Isqrt(n) == CHOOSE r \in 0..(n + 1) : (2 * r - 1) * (2 * r - 1) <= 4 * n /\ 4 * n < (2 * r + 1) * (2 * r + 1)

(* ------------------------------ engine ------------------------------- *)

\* The local paddle (bottom) and the remote paddle (top) of a game state.
LocalPaddle(g) ==
  [ x |-> g.localPlayer.paddle.x,
    y |-> settings.fieldHeight - settings.paddleHeight * 2,
    width |-> settings.paddleWidth,
    height |-> settings.paddleHeight ]

RemotePaddle(g) ==
  [ x |-> g.remotePlayer.paddle.x,
    y |-> settings.paddleHeight * 2,
    width |-> settings.paddleWidth,
    height |-> settings.paddleHeight ]

\* GameEngine.createInitialGameState, with lastUpdateTime of the constructor.
createInitialGameState ==
  [ ball |-> [ x |-> settings.fieldWidth \div 2,
               y |-> settings.fieldHeight \div 2,
               velocityX |-> 0,
               velocityY |-> 0,
               speed |-> settings.initialBallSpeed ],
    localPlayer  |-> [ paddle |-> [x |-> settings.fieldWidth \div 2], score |-> 0 ],
    remotePlayer |-> [ paddle |-> [x |-> settings.fieldWidth \div 2], score |-> 0 ],
    isPlaying |-> FALSE,
    isPaused |-> FALSE,
    lastUpdateTime |-> 0 ]

\* A variant in which the guest owns the ball that moves up, as the comment
\* on the guest's branch reads.
isSourceOfTruth_guestUp(side, g) ==
  IF g.ball.velocityY > 0 /\ side = "host" THEN TRUE
  ELSE IF g.ball.velocityY < 0 /\ side # "host" THEN TRUE
  ELSE FALSE

\* A variant that also owns a ball at rest.
isSourceOfTruth_atRest(side, g) ==
  IF g.ball.velocityY >= 0 /\ side = "host" THEN TRUE
  ELSE IF g.ball.velocityY >= 0 /\ side # "host" THEN TRUE
  ELSE FALSE

\* GameEngine.isSourceOfTruth: both branches test velocityY > 0.
isSourceOfTruth(side, g) ==
  IF g.ball.velocityY > 0 /\ side = "host" THEN TRUE
  ELSE IF g.ball.velocityY > 0 /\ side # "host" THEN TRUE
  ELSE FALSE

\* The random draws of one serve: the sine of the serve angle in grid units
\* (|angle| <= 30 degrees, so |sin| <= 1/2) and the two coin flips.
ServeDraws ==
  [ sin : (-(settings.initialBallSpeed \div 2))..(settings.initialBallSpeed \div 2),
    coinY : {-1, 1},
    coinX : {-1, 1} ]

\* GameEngine.initBallMovement(serveTowardsLocal) on ball b with draws d.
initBallMovement(b, serveTowardsLocal, d) ==
  LET s == settings.initialBallSpeed
      paddleOffset == settings.paddleHeight * 3
      y0 == IF serveTowardsLocal THEN paddleOffset ELSE settings.fieldHeight - paddleOffset
      vy0 == d.sin
      vx0 == Isqrt(s * s - vy0 * vy0)
      tooFlat == 5 * Abs(vy0) < s
      signY == IF vy0 = 0 THEN d.coinY ELSE Sign(vy0)
      vy1 == IF tooFlat THEN signY * Max(1, RoundDiv(s, 5)) ELSE vy0
      signX == IF vx0 = 0 THEN d.coinX ELSE Sign(vx0)
      vx1 == IF tooFlat THEN signX * Isqrt(s * s - vy1 * vy1) ELSE vx0
      vy2 == IF serveTowardsLocal THEN Abs(vy1) ELSE -Abs(vy1)
  IN  [ x |-> settings.fieldWidth \div 2,
        y |-> y0,
        velocityX |-> vx1,
        velocityY |-> vy2,
        speed |-> s ]

\* A variant of handlePaddleCollision that leaves the velocity as the hit
\* made it, without scaling it to the new speed.
handlePaddleCollision_unnormalised(g, paddle, rnd) ==
  LET b == g.ball
      vy1 == -b.velocityY
      vx1 == b.velocityX + RoundDiv((b.x - paddle.x) * 3 * b.speed, 2 * paddle.width)
      overlap == settings.ballRadius + paddle.height \div 2 - Abs(b.y - paddle.y)
      y1 == IF overlap > 0 THEN b.y + (IF vy1 > 0 THEN overlap ELSE -overlap) ELSE b.y
      speed1 == Min(b.speed + settings.ballSpeedIncrement, settings.maxBallSpeed)
  IN  [g EXCEPT !.ball = [ x |-> b.x,
                           y |-> y1,
                           velocityX |-> vx1 + RoundDiv(rnd * speed1, 10),
                           velocityY |-> vy1,
                           speed |-> speed1 ]]

\* GameEngine.handlePaddleCollision(paddle) on game state g; rnd stands for
\* Math.random() * 2 - 1.
handlePaddleCollision(g, paddle, rnd) ==
  LET b == g.ball
      vy1 == -b.velocityY
      vx1 == b.velocityX + RoundDiv((b.x - paddle.x) * 3 * b.speed, 2 * paddle.width)
      overlap == settings.ballRadius + paddle.height \div 2 - Abs(b.y - paddle.y)
      y1 == IF overlap > 0 THEN b.y + (IF vy1 > 0 THEN overlap ELSE -overlap) ELSE b.y
      speed1 == Min(b.speed + settings.ballSpeedIncrement, settings.maxBallSpeed)
      vx2 == vx1 + RoundDiv(rnd * speed1, 10)
      currentSpeed == Isqrt(vx2 * vx2 + vy1 * vy1)
  IN  [g EXCEPT !.ball = [ x |-> b.x,
                           y |-> y1,
                           velocityX |-> RoundDiv(vx2 * speed1, currentSpeed),
                           velocityY |-> RoundDiv(vy1 * speed1, currentSpeed),
                           speed |-> speed1 ]]

\* GameEngine.resetGame: a fresh game state; lastUpdateTime is a field of the
\* engine, not of the game state, and survives.
resetGame(g) == [createInitialGameState EXCEPT !.lastUpdateTime = g.lastUpdateTime]

(* --------------------- application callbacks ------------------------ *)

\* A handler runs on a context: the engine's state g, the messages the
\* handler has handed to connection.sendMessage so far (out), whether an
\* animation frame is scheduled (frame), and a record of the engine
\* functions it ran (log), each with isSourceOfTruth() at the time of the
\* call; handleBallOut also records the scores it leaves.
Context(g, frame) == [g |-> g, out |-> <<>>, frame |-> frame, log |-> <<>>]

BallMessage(b) == [type |-> "ball", data |-> b]

\* app.js updateScore, the onScoreUpdate callback: only the host sends.
updateScore(side, c, localScore, remoteScore) ==
  [c EXCEPT !.out = IF side = "host"
                    THEN Append(c.out, [type |-> "score",
                                        data |-> [local |-> localScore, remote |-> remoteScore]])
                    ELSE c.out,
            !.log = Append(c.log, [fn |-> "onScoreUpdate"])]

\* app.js handleBallOut, the onBallOut callback: only the host sends.
handleBallOutCallback(side, c) ==
  [c EXCEPT !.out = IF side = "host" THEN Append(c.out, BallMessage(c.g.ball)) ELSE c.out]

\* app.js handleGameOver: cancels the animation frame, the host notifies the
\* guest, and the engine is reset.
handleGameOver(side, c, localWon) ==
  [c EXCEPT !.frame = FALSE,
            !.out = IF side = "host"
                    THEN Append(c.out, [type |-> "gameOver", data |-> [localWon |-> ~localWon]])
                    ELSE c.out,
            !.g = resetGame(c.g)]

(* -------------------------- engine tick ----------------------------- *)

\* GameEngine.handleBallOut; d are the random draws of the next serve.
handleBallOut(side, c, d) ==
  LET g == c.g
      b == g.ball
      wasSource == isSourceOfTruth(side, g)
      outLocal == b.y > settings.fieldHeight + settings.ballRadius
      outRemote == b.y < -settings.ballRadius
  IN  IF ~outLocal /\ ~outRemote
      THEN [c EXCEPT !.log = Append(c.log, [fn |-> "handleBallOut", wasSource |-> wasSource,
                                            edge |-> "none",
                                            local |-> g.localPlayer.score,
                                            remote |-> g.remotePlayer.score])]
      ELSE
        LET g1 == IF outLocal
                  THEN [g EXCEPT !.remotePlayer.score = @ + 1]
                  ELSE [g EXCEPT !.localPlayer.score = @ + 1]
            pointWinner == IF outLocal THEN "remote" ELSE "local"
            c1 == [c EXCEPT !.g = g1,
                            !.log = Append(c.log, [fn |-> "handleBallOut", wasSource |-> wasSource,
                                                   edge |-> IF outLocal THEN "local" ELSE "remote",
                                                   local |-> g1.localPlayer.score,
                                                   remote |-> g1.remotePlayer.score])]
            c2 == updateScore(side, c1, g1.localPlayer.score, g1.remotePlayer.score)
        IN  IF g1.localPlayer.score >= settings.winScore \/ g1.remotePlayer.score >= settings.winScore
            THEN LET c3 == [c2 EXCEPT !.g.isPlaying = FALSE,
                                      !.g.ball.velocityX = 0,
                                      !.g.ball.velocityY = 0,
                                      !.log = Append(c2.log, [fn |-> "onGameOver"])]
                 IN  handleGameOver(side, c3, g1.localPlayer.score > g1.remotePlayer.score)
            ELSE LET serveTowardsLocal == pointWinner = "remote"
                     isSourceForNextServe == (serveTowardsLocal /\ side # "host")
                                             \/ (~serveTowardsLocal /\ side = "host")
                 IN  IF isSourceForNextServe
                     THEN [c2 EXCEPT !.g.ball = initBallMovement(@, serveTowardsLocal, d),
                                     !.log = Append(c2.log, [fn |-> "initBallMovement"])]
                     ELSE c2

\* GameEngine.checkCollisions; rnd is the random draw of a paddle hit.
checkCollisions(side, c, rnd) ==
  LET g == c.g
      ball == g.ball
      radius == settings.ballRadius
      localPaddle == LocalPaddle(g)
      remotePaddle == RemotePaddle(g)
      hit(paddle) == LET c1 == [c EXCEPT !.g = handlePaddleCollision(g, paddle, rnd),
                                         !.log = Append(c.log, [fn |-> "handlePaddleCollision",
                                                                wasSource |-> isSourceOfTruth(side, g)])]
                     IN  handleBallOutCallback(side, c1)
  IN  IF /\ ball.velocityY > 0
         /\ 2 * (ball.y + radius) > 2 * localPaddle.y - localPaddle.height
         /\ 2 * (ball.y - radius) < 2 * localPaddle.y + localPaddle.height
         /\ 2 * (ball.x + radius) > 2 * localPaddle.x - localPaddle.width
         /\ 2 * (ball.x - radius) < 2 * localPaddle.x + localPaddle.width
      THEN hit(localPaddle)
      ELSE IF /\ ball.velocityY < 0
              /\ 2 * (ball.y - radius) < 2 * remotePaddle.y + remotePaddle.height
              /\ 2 * (ball.y + radius) > 2 * remotePaddle.y - remotePaddle.height
              /\ 2 * (ball.x + radius) > 2 * remotePaddle.x - remotePaddle.width
              /\ 2 * (ball.x - radius) < 2 * remotePaddle.x + remotePaddle.width
      THEN hit(remotePaddle)
      ELSE IF ball.x - radius <= 0 \/ ball.x + radius >= settings.fieldWidth
      THEN [c EXCEPT !.g.ball.velocityX = -ball.velocityX,
                     !.g.ball.x = IF ball.x - radius < 0 THEN radius
                                  ELSE IF ball.x + radius > settings.fieldWidth
                                       THEN settings.fieldWidth - radius
                                       ELSE ball.x]
      ELSE c

\* GameEngine.updateBall(deltaTime).
updateBall(side, c, deltaTime, rnd, d) ==
  LET b == c.g.ball
      radius == settings.ballRadius
      x1 == b.x + b.velocityX * deltaTime
      y1 == b.y + b.velocityY * deltaTime
      bounce == x1 - radius < 0 \/ x1 + radius > settings.fieldWidth
      c1 == [c EXCEPT !.g.ball.x = IF bounce THEN Max(radius, Min(settings.fieldWidth - radius, x1)) ELSE x1,
                      !.g.ball.y = y1,
                      !.g.ball.velocityX = IF bounce THEN -b.velocityX ELSE b.velocityX]
      c2 == IF (y1 > settings.fieldHeight + radius \/ y1 < -radius) /\ isSourceOfTruth(side, c1.g)
            THEN handleBallOut(side, c1, d)
            ELSE c1
  IN  IF isSourceOfTruth(side, c2.g) THEN checkCollisions(side, c2, rnd) ELSE c2

\* The elapsed time update(timestamp) integrates over, given lastUpdateTime.
DeltaTime(timestamp, lastUpdateTime) ==
  LET last == IF lastUpdateTime = 0 THEN timestamp - NominalFrame ELSE lastUpdateTime
      dt0 == timestamp - last
      dt1 == IF dt0 <= 0 THEN NominalFrame ELSE dt0
  IN  IF dt1 > MaxDeltaTime THEN MaxDeltaTime ELSE dt1

\* A variant of update without the early return of a stopped or paused game.
update_noEarlyReturn(side, c, timestamp, rnd1, rnd2, d) ==
  LET deltaTime == DeltaTime(timestamp, c.g.lastUpdateTime)
      c1 == [c EXCEPT !.g.lastUpdateTime = timestamp]
      c2 == updateBall(side, c1, deltaTime, rnd1, d)
  IN  [c |-> checkCollisions(side, c2, rnd2), result |-> TRUE]

\* A variant of update that goes on while the game is paused.
update_whilePaused(side, c, timestamp, rnd1, rnd2, d) ==
  IF ~c.g.isPlaying
  THEN [c |-> c, result |-> FALSE]
  ELSE LET deltaTime == DeltaTime(timestamp, c.g.lastUpdateTime)
           c1 == [c EXCEPT !.g.lastUpdateTime = timestamp]
           c2 == updateBall(side, c1, deltaTime, rnd1, d)
       IN  [c |-> checkCollisions(side, c2, rnd2), result |-> TRUE]

\* GameEngine.update(timestamp): the context after the call and its result.
update(side, c, timestamp, rnd1, rnd2, d) ==
  IF ~c.g.isPlaying \/ c.g.isPaused
  THEN [c |-> c, result |-> FALSE]
  ELSE LET deltaTime == DeltaTime(timestamp, c.g.lastUpdateTime)
           c1 == [c EXCEPT !.g.lastUpdateTime = timestamp]
           c2 == updateBall(side, c1, deltaTime, rnd1, d)
       IN  [c |-> checkCollisions(side, c2, rnd2), result |-> TRUE]

\* GameEngine.startGame: only the guest serves; now stands for performance.now().
GameEngine_startGame(side, g, now, d) ==
  [g EXCEPT !.isPlaying = TRUE,
            !.isPaused = FALSE,
            !.ball = IF side # "host" THEN initBallMovement(@, FALSE, d) ELSE @,
            !.lastUpdateTime = now]

\* A variant of updatePaddlePosition that stores x as it is given.
updatePaddlePosition_unclamped(g, x, isLocalPaddle) ==
  IF isLocalPaddle
  THEN [g EXCEPT !.localPlayer.paddle.x = x]
  ELSE [g EXCEPT !.remotePlayer.paddle.x = x]

\* GameEngine.updatePaddlePosition(x, isLocalPaddle).
updatePaddlePosition(g, x, isLocalPaddle) ==
  LET width == settings.paddleWidth
      clamped == Max(width \div 2, Min(settings.fieldWidth - width \div 2, x))
  IN  IF isLocalPaddle
      THEN [g EXCEPT !.localPlayer.paddle.x = clamped]
      ELSE [g EXCEPT !.remotePlayer.paddle.x = clamped]

\* GameEngine.updateFromRemote({ball}).
updateFromRemote_ball(g, ball) == [g EXCEPT !.ball = ball]

\* GameEngine.updateFromRemote({remotePaddle}).
updateFromRemote_remotePaddle(g, remotePaddle) == [g EXCEPT !.remotePlayer.paddle.x = remotePaddle.x]

\* GameEngine.updateFromRemote({score}): the fields are copied as they are named.
updateFromRemote_score(g, score) ==
  [g EXCEPT !.remotePlayer.score = score.remote,
            !.localPlayer.score = score.local]

(* --------------------- connection and peer -------------------------- *)

\* How many invocations of onConnected / onDisconnected are told apart.
MaxCalls == 2

\* One client's Connection (connection.js) together with its Peer (peer.js)
\* and the browser objects behind them, right after `new Connection(...)`.
\*   connection                 app.js still holds the Connection
\*   peer                       this.peer is set
\*   connectionAttemptTimeout   this._connectionAttemptTimeout is set
\*   timeoutPending             the 30 s timer is armed and has not fired
\*   pingInterval               this._pingInterval is set (the interval runs)
\*   connected, destroyed       the Peer's flags
\*   readyState                 of the RTCDataChannel ("none": no channel yet)
\*   openPending, closePending  the channel's open / close event is queued
\*   everConnected              the Connection has been in state connected
\*   leftConnected              a close or an error has ended state connected
NewConnection ==
  [ connection |-> TRUE,
    peer |-> FALSE,
    isConnected |-> FALSE,
    connectionState |-> "new",
    connectionAttemptTimeout |-> FALSE,
    timeoutPending |-> FALSE,
    pingInterval |-> FALSE,
    connected |-> FALSE,
    destroyed |-> FALSE,
    readyState |-> "none",
    openPending |-> FALSE,
    closePending |-> FALSE,
    onConnectedCalls |-> 0,
    onDisconnectedCalls |-> 0,
    everConnected |-> FALSE,
    leftConnected |-> FALSE ]

\* The errors a Peer reports, by message; NoMessage is an error without one.
NoMessage == [message |-> ""]

Errors ==
  { [message |-> "Data channel error"],
    [message |-> "InvalidStateError: RTCDataChannel.readyState is not 'open'"],
    [message |-> "Failed to set remote answer sdp"],
    [message |-> "Failed to set remote offer sdp"],
    [message |-> "ICE failed, see about:webrtc"],
    [message |-> "Invalid session description"],
    NoMessage }

\* message.toLowerCase().includes(pattern.toLowerCase()) on the messages above.
Includes ==
  { <<"Failed to set remote answer sdp", "failed to set remote answer">>,
    <<"ICE failed, see about:webrtc", "ICE failed">> }

\* A classification that takes every error for a critical one.
_isCriticalError_any(error) == TRUE

\* Connection._isCriticalError (Peer._isCriticalError is the same function).
_isCriticalError(error) ==
  LET criticalPatterns == { "failed to set remote answer", "cannot establish connection",
                            "ICE failed", "connection timeout" }
  IN  IF error # NoMessage
      THEN \E pattern \in criticalPatterns : <<error.message, pattern>> \in Includes
      ELSE FALSE

\* A Connection or Peer handler runs on a context: the client's record k, the
\* payloads it has handed to RTCDataChannel.send (out), the messages it has
\* passed to onMessage (delivered), and the value sendMessage returned.
Handler(k) == [k |-> k, out |-> <<>>, delivered |-> <<>>, result |-> FALSE]

\* Connection._clearPingInterval.
_clearPingInterval(k) == [k EXCEPT !.pingInterval = FALSE]

\* Connection._setupPingInterval: the interval is cleared and set again.
_setupPingInterval(k) == [_clearPingInterval(k) EXCEPT !.pingInterval = TRUE]

\* Peer.destroy.
destroy(k) ==
  IF k.destroyed THEN k
  ELSE [k EXCEPT !.destroyed = TRUE,
                 !.connected = FALSE,
                 !.readyState = IF @ = "none" THEN @ ELSE "closed"]

\* Connection.disconnect.
disconnect(k) ==
  LET k1 == IF k.connectionAttemptTimeout
            THEN [k EXCEPT !.connectionAttemptTimeout = FALSE, !.timeoutPending = FALSE]
            ELSE k
      k2 == _clearPingInterval(k1)
  IN  IF k2.peer
      THEN [destroy(k2) EXCEPT !.peer = FALSE,
                               !.isConnected = FALSE,
                               !.connectionState = "disconnected"]
      ELSE k2

\* An onDisconnected callback that leaves the Connection and its Peer alone.
handleDisconnect_keepPeer(c) ==
  [c EXCEPT !.k.onDisconnectedCalls = Min(@ + 1, MaxCalls)]

\* app.js handleDisconnect, the onDisconnected callback: resetConnection()
\* disconnects the Connection and drops it.
handleDisconnect(c) ==
  [c EXCEPT !.k = [disconnect([c.k EXCEPT !.onDisconnectedCalls = Min(@ + 1, MaxCalls)])
                     EXCEPT !.connection = FALSE]]

\* app.js handleConnectionSuccess, the onConnected callback.
handleConnectionSuccess(c) == [c EXCEPT !.k.onConnectedCalls = Min(@ + 1, MaxCalls)]

\* A 'connect' handler that sets isConnected and leaves the state alone.
onConnect_flagOnly(c) ==
  LET k1 == IF c.k.connectionAttemptTimeout
            THEN [c.k EXCEPT !.connectionAttemptTimeout = FALSE, !.timeoutPending = FALSE]
            ELSE c.k
      k2 == [k1 EXCEPT !.isConnected = TRUE, !.everConnected = TRUE]
  IN  handleConnectionSuccess([c EXCEPT !.k = _setupPingInterval(k2)])

\* The 'connect' handler of Connection.setupPeerEvents.
onConnect(c) ==
  LET k1 == IF c.k.connectionAttemptTimeout
            THEN [c.k EXCEPT !.connectionAttemptTimeout = FALSE, !.timeoutPending = FALSE]
            ELSE c.k
      k2 == [k1 EXCEPT !.isConnected = TRUE, !.connectionState = "connected", !.everConnected = TRUE]
  IN  handleConnectionSuccess([c EXCEPT !.k = _setupPingInterval(k2)])

\* A 'close' handler that changes the state without a callback.
onClose_silent(c) ==
  IF c.k.connectionState = "connected"
  THEN [c EXCEPT !.k.isConnected = FALSE, !.k.connectionState = "disconnected"]
  ELSE c

\* The 'close' handler of Connection.setupPeerEvents.
onClose(c) ==
  IF c.k.connectionState = "connected"
  THEN handleDisconnect([c EXCEPT !.k.isConnected = FALSE,
                                  !.k.connectionState = "disconnected",
                                  !.k.leftConnected = TRUE])
  ELSE c

\* An 'error' handler that acts on critical errors only.
onError_criticalOnly(c, error) ==
  IF _isCriticalError(error)
  THEN handleDisconnect([c EXCEPT !.k.isConnected = FALSE, !.k.connectionState = "disconnected"])
  ELSE c

\* The 'error' handler of Connection.setupPeerEvents.
onError(c, error) ==
  IF c.k.connectionState = "connected" \/ _isCriticalError(error)
  THEN handleDisconnect([c EXCEPT !.k.isConnected = FALSE,
                                  !.k.connectionState = "disconnected",
                                  !.k.leftConnected = @ \/ c.k.connectionState = "connected"])
  ELSE c

\* The 30 s timer callback of Connection.setupPeerEvents.
connectionAttemptTimeout(c) ==
  LET c1 == [c EXCEPT !.k.timeoutPending = FALSE]
  IN  IF c1.k.connectionState = "connecting"
      THEN LET c2 == [c1 EXCEPT !.k.connectionState = "disconnected"]
           IN  IF c2.k.isConnected THEN handleDisconnect(c2) ELSE c2
      ELSE c1

\* Peer._handleError.
_handleError(c, error) ==
  IF c.k.destroyed THEN c
  ELSE IF c.k.connected \/ _isCriticalError(error) THEN onError(c, error)
  ELSE c

\* Peer._handleDisconnect.
_handleDisconnect(c) ==
  IF c.k.destroyed THEN c
  ELSE onClose([c EXCEPT !.k.connected = FALSE])

\* Peer._checkDataChannelState.
_checkDataChannelState(c) ==
  IF ~c.k.destroyed /\ c.k.readyState = "open" /\ ~c.k.connected
  THEN onConnect([c EXCEPT !.k.connected = TRUE])
  ELSE c

\* The onopen handler that Peer._setupDataChannel installs.
onopen(c) == onConnect([c EXCEPT !.k.openPending = FALSE, !.k.connected = TRUE])

\* JSON.stringify(message): the text of the message.
JSON_stringify(message) == [kind |-> "string", content |-> message]

\* JSON.parse(data) of a text produced by JSON.stringify.
JSON_parse(data) == data.content

\* new TextEncoder().encode(data): the text as a Uint8Array.
TextEncoder_encode(data) == [kind |-> "binary", content |-> data]

\* The error RTCDataChannel.send throws on a channel that is not open.
InvalidStateError == [message |-> "InvalidStateError: RTCDataChannel.readyState is not 'open'"]

\* Peer.send of a text.
send(c, data) ==
  IF c.k.destroyed \/ ~c.k.connected THEN c
  ELSE IF c.k.readyState = "open"
       THEN [c EXCEPT !.out = Append(@, TextEncoder_encode(data))]
       ELSE _handleError(c, InvalidStateError)

\* A sendMessage without the check of isConnected and peer.
sendMessage_unguarded(c, message) ==
  [send(c, JSON_stringify(message)) EXCEPT !.result = TRUE]

\* Connection.sendMessage; result is the value it returns.
sendMessage(c, message) ==
  IF ~c.k.isConnected \/ ~c.k.peer
  THEN [c EXCEPT !.result = FALSE]
  ELSE [send(c, JSON_stringify(message)) EXCEPT !.result = TRUE]

\* The messages of the two clients: the keepalive pair of connection.js and
\* the paddle message of app.js (timestamps and coordinates left out).
Ping == [type |-> "ping", data |-> [timestamp |-> 0]]

\* A pong that repeats its own clock reading as pingTimestamp.
PongTo_own(message) ==
  [type |-> "pong", data |-> [timestamp |-> 0, pingTimestamp |-> 0]]

\* The pong with which the 'data' handler answers a ping: its own clock
\* reading and the ping's timestamp.
PongTo(message) ==
  [type |-> "pong", data |-> [timestamp |-> 0, pingTimestamp |-> message.data.timestamp]]

Pong == PongTo(Ping)

PaddleMessage == [type |-> "paddle", data |-> [x |-> 1]]

\* The content of a text that JSON.parse rejects.
NotJSON == [syntaxError |-> TRUE]

\* A 'data' handler that keeps ping and pong to itself.
onData_consuming(c, data) ==
  IF data.kind # "string" THEN c
  ELSE IF data.content = NotJSON THEN c
  ELSE LET message == JSON_parse(data)
       IN  IF message.type = "ping"
           THEN IF "data" \in DOMAIN message THEN sendMessage(c, PongTo(message)) ELSE c
           ELSE IF message.type = "pong" THEN c
           ELSE [c EXCEPT !.delivered = Append(@, message)]

\* A 'data' handler that gives up the connection on a payload it cannot read.
onData_strict(c, data) ==
  IF data.kind # "string" \/ data.content = NotJSON
  THEN handleDisconnect([c EXCEPT !.k.isConnected = FALSE, !.k.connectionState = "disconnected"])
  ELSE LET message == JSON_parse(data)
       IN  IF message.type \in {"ping", "pong"} /\ "data" \notin DOMAIN message
           THEN handleDisconnect([c EXCEPT !.k.isConnected = FALSE, !.k.connectionState = "disconnected"])
           ELSE [(IF message.type = "ping" THEN sendMessage(c, PongTo(message)) ELSE c)
                   EXCEPT !.delivered = Append(@, message)]

\* The 'data' handler of Connection.setupPeerEvents. data.includes exists
\* on a string only: on binary data the call throws before the try block.
\* Inside the try block JSON.parse throws on a text that is not JSON, and
\* message.data.timestamp / message.data.pingTimestamp throw on a ping or
\* pong without data; the catch logs the error and onMessage is not called.
onData(c, data) ==
  IF data.kind # "string" THEN c
  ELSE IF data.content = NotJSON THEN c
  ELSE LET message == JSON_parse(data)
       IN  IF message.type \in {"ping", "pong"} /\ "data" \notin DOMAIN message THEN c
           ELSE [(IF message.type = "ping" THEN sendMessage(c, PongTo(message)) ELSE c)
                   EXCEPT !.delivered = Append(@, message)]

\* The interval callback of Connection._setupPingInterval.
pingTick(c) ==
  IF c.k.isConnected THEN sendMessage(c, Ping)
  ELSE [c EXCEPT !.k = _clearPingInterval(@)]

\* Connection.initAsHost / initAsGuest up to setupPeerEvents: the Peer is
\* created (the initiator with its data channel), the state is connecting
\* and the 30 s timer is armed.
initPeer(k, initiator) ==
  [k EXCEPT !.peer = TRUE,
            !.readyState = IF initiator THEN "connecting" ELSE "none",
            !.connectionState = "connecting",
            !.connectionAttemptTimeout = TRUE,
            !.timeoutPending = TRUE]

\* The ondatachannel handler of Peer._init with Peer._setupDataChannel: the
\* channel arrives in state ready, its open event queued or not.
ondatachannel(c, ready, queued) ==
  LET c1 == [c EXCEPT !.k.readyState = ready, !.k.openPending = queued]
  IN  IF c1.k.readyState = "open" /\ ~c1.k.connected
      THEN onConnect([c1 EXCEPT !.k.connected = TRUE])
      ELSE c1

(* --------------------------- signalling ----------------------------- *)

\* ICE candidates a Peer gathers.
MaxCandidates == 2

\* No text: the promise is not resolved, nothing has been entered.
NoText == [kind |-> "none"]

\* JSON values that are no envelope objects: null and an object without
\* the fields of an envelope.
JSONNull == [null |-> TRUE]

EmptyObject == [object |-> TRUE]

\* A text that is not JSON, such as a bare session description: raw is the
\* text itself.
RawText(raw) == [kind |-> "string", content |-> NotJSON, raw |-> raw]

\* obj.field of a parsed JSON value; a missing field reads as undefined.
Get(obj, field) == IF field \in DOMAIN obj THEN obj[field] ELSE "undefined"

\* The signalling side of one Connection, before initAsHost / initAsGuest.
\*   promise        of initAsHost / initAsGuest: none, pending, resolved, rejected
\*   envelope       the text the promise was resolved with
\*   description    offerData / answerData: the sdp the Peer has emitted ("": none)
\*   iceCandidates  the candidates the Peer has emitted, in order
\*   sent           _offerSent / _answerSent
\*   ceiling        the 5 s timer is armed
\*   feedArmed      the 500 ms timer is armed; feed: the candidates it will pass on
\*   input          the text given to initAsGuest / processAnswer
\*   fallback       the input was taken as a raw session description
\*   signals        what peer.signal has been called with, in order
\*   awaiting       setRemoteDescription is under way
\*   accepted       the remote description is set
\*   threw          a timer callback has thrown
NoSignaling ==
  [ promise |-> "none",
    envelope |-> NoText,
    description |-> "",
    iceCandidates |-> <<>>,
    sent |-> FALSE,
    ceiling |-> FALSE,
    feedArmed |-> FALSE,
    feed |-> <<>>,
    input |-> NoText,
    fallback |-> FALSE,
    signals |-> <<>>,
    awaiting |-> FALSE,
    accepted |-> FALSE,
    threw |-> FALSE ]

\* The type of description each side's Peer emits, and the one it is given.
LocalType(side) == IF side = "host" THEN "offer" ELSE "answer"

RemoteType(side) == IF side = "host" THEN "answer" ELSE "offer"

\* resolve(...) of the promise's executor: only a pending promise changes.
resolve(g, text) ==
  IF g.promise = "pending" THEN [g EXCEPT !.promise = "resolved", !.envelope = text] ELSE g

\* An RTCIceCandidate object as the Peer emits it, and its toJSON(), the
\* plain object that JSON.stringify writes for it.
RTCIceCandidate(candidate) == [candidate |-> candidate, sdpMid |-> "0", object |-> "RTCIceCandidate"]

toJSON(object) == [candidate |-> object.candidate, sdpMid |-> object.sdpMid]

\* completeOfferData / completeAnswerData as JSON text.
Envelope(type, g) ==
  JSON_stringify([type |-> type,
                  sdp |-> g.description,
                  iceCandidates |-> [i \in 1..Len(g.iceCandidates) |-> toJSON(g.iceCandidates[i])]])

\* Connection._isTimeToSendOffer / _isTimeToSendAnswer.
_isTimeToSend(g) == g.sent \/ FALSE

\* The 'signal' handler of initAsHost / initAsGuest.
onSignal(g, side, data) ==
  LET g1 == IF data.type = LocalType(side) THEN [g EXCEPT !.description = data.sdp]
            ELSE IF data.type = "candidate"
                 THEN [g EXCEPT !.iceCandidates = Append(@, data.candidate)]
                 ELSE g
  IN  IF g1.description # "" /\ (Len(g1.iceCandidates) > 0 \/ _isTimeToSend(g1))
      THEN resolve(g1, Envelope(LocalType(side), g1))
      ELSE g1

\* The 5 s timer callback of initAsHost / initAsGuest.
ceilingTimeout(g, side) ==
  LET g1 == [g EXCEPT !.ceiling = FALSE]
  IN  IF g1.description # "" /\ ~g1.sent
      THEN resolve([g1 EXCEPT !.sent = TRUE], Envelope(LocalType(side), g1))
      ELSE g1

\* Peer.signal: a destroyed Peer ignores the call; an offer or answer starts
\* setRemoteDescription.
signal(k, g, data) ==
  IF k.destroyed THEN g
  ELSE [g EXCEPT !.signals = Append(@, data),
                 !.awaiting = @ \/ data.type \in {"offer", "answer"}]

\* An initAsGuest / processAnswer that leaves out the candidates of the envelope.
processSignalingData_noCandidates(k, g, side, text) ==
  signal(k, [g EXCEPT !.input = text],
         [type |-> RemoteType(side), sdp |-> Get(text.content, "sdp")])

\* The parsing of initAsGuest and of processAnswer: JSON.parse, the 500 ms
\* timer for the candidates of the envelope, peer.signal of the description.
\* A SyntaxError of JSON.parse and the TypeError of reading null.iceCandidates
\* are caught: the whole input is signalled as the session description.
processSignalingData(k, g, side, text) ==
  LET g1 == [g EXCEPT !.input = text]
  IN  IF text.content = NotJSON \/ text.content = JSONNull
      THEN signal(k, [g1 EXCEPT !.fallback = TRUE],
                  [type |-> RemoteType(side), sdp |-> text.raw])
      ELSE LET parsed == text.content
               g2 == IF "iceCandidates" \in DOMAIN parsed
                     THEN [g1 EXCEPT !.feedArmed = TRUE, !.feed = parsed.iceCandidates]
                     ELSE g1
           IN  signal(k, g2, [type |-> RemoteType(side), sdp |-> Get(parsed, "sdp")])

RECURSIVE signalCandidates(_, _, _)
\* iceCandidates.forEach(candidate => this.peer.signal({type: 'candidate', candidate})).
signalCandidates(k, g, candidates) ==
  IF candidates = <<>> THEN g
  ELSE signalCandidates(k, signal(k, g, [type |-> "candidate", candidate |-> Head(candidates)]),
                        Tail(candidates))

\* The 500 ms timer callback of initAsGuest / processAnswer. With candidates
\* to pass on and this.peer null, this.peer.signal throws a TypeError.
feedTimeout(k, g) ==
  LET g1 == [g EXCEPT !.feedArmed = FALSE]
  IN  IF g1.feed = <<>> THEN g1
      ELSE IF ~k.peer THEN [g1 EXCEPT !.threw = TRUE]
      ELSE signalCandidates(k, g1, g1.feed)

(* --------------------------- application ---------------------------- *)

VARIABLES
  gameEngine,        \* per side: the GameEngine of app.js, or Null before the first start
  animationFrameId,  \* per side: whether a gameLoop frame is scheduled
  countdowns,        \* per side: countdown sequences started and not yet finished
  ui,                \* per side: which screens and buttons can be clicked
  channel,           \* per side: the messages in flight to that side, in order
  skew,              \* frames the host has run more than the guest
  clicks,            \* button presses so far
  moves,             \* pointer moves so far
  link,              \* per side: the Connection and its Peer
  wire,              \* per side: the payloads in flight to that side's data channel
  signaling          \* per side: the offer/answer exchange of the Connection

vars == <<gameEngine, animationFrameId, countdowns, ui, channel, skew, clicks, moves>>

connVars == <<link, wire, signaling>>

Null == [null |-> TRUE]

\* Timestamps of requestAnimationFrame and performance.now().
Timestamps == 1..MaxTimestamp

\* Math.random() * 2 - 1 on the grid.
RandomDraws == {-1, 0, 1}

\* Pointer positions mapped to game coordinates by handleTouchMove.
PointerX == {-1, settings.fieldWidth \div 2}

\* The Connection of a client once its data channel has opened, which is
\* when the start button appears.
Established(side) ==
  LET k == initPeer(NewConnection, side = "host")
  IN  onopen(Handler([k EXCEPT !.readyState = "open"])).k

Init ==
  /\ gameEngine = [s \in Side |-> Null]
  /\ animationFrameId = [s \in Side |-> FALSE]
  /\ countdowns = [s \in Side |-> 0]
  /\ ui = [s \in Side |-> [startGameBtn |-> TRUE, playAgainBtn |-> FALSE]]
  /\ channel = [s \in Side |-> <<>>]
  /\ skew = 0
  /\ clicks = 0
  /\ moves = 0
  /\ link = [s \in Side |-> Established(s)]
  /\ wire = [s \in Side |-> <<>>]
  /\ signaling = [s \in Side |-> NoSignaling]

\* connection.sendMessage for each message of out, in order; the handler
\* waits for room in the channel.
Send(from, out) ==
  /\ Len(channel[Other(from)]) + Len(out) <= MaxQueue
  /\ channel' = [channel EXCEPT ![Other(from)] = @ \o out]

\* app.js startCountdown: hides the game-over and connection screens and
\* starts one countdown sequence.
startCountdown(side) ==
  /\ countdowns' = [countdowns EXCEPT ![side] = @ + 1]
  /\ ui' = [ui EXCEPT ![side] = [startGameBtn |-> FALSE, playAgainBtn |-> FALSE]]

\* app.js startGame: the Ready or the AGAIN button is clicked.
startGame(side) ==
  /\ ui[side].startGameBtn \/ ui[side].playAgainBtn
  /\ clicks < MaxClicks
  /\ clicks' = clicks + 1
  /\ Send(side, <<[type |-> "startCountdown", data |-> [timestamp |-> 0]]>>)
  /\ startCountdown(side)
  /\ UNCHANGED <<gameEngine, animationFrameId, skew, moves>>

\* app.js startGameAfterCountdown: a countdown sequence finishes.
startGameAfterCountdown(side, now, d) ==
  /\ countdowns[side] > 0
  /\ countdowns' = [countdowns EXCEPT ![side] = @ - 1]
  /\ LET g == IF gameEngine[side] = Null THEN createInitialGameState ELSE gameEngine[side]
     IN  /\ gameEngine' = [gameEngine EXCEPT ![side] = GameEngine_startGame(side, g, now, d)]
  /\ animationFrameId' = [animationFrameId EXCEPT ![side] = TRUE]
  /\ UNCHANGED <<ui, channel, skew, clicks, moves>>

\* app.js gameLoop(timestamp): one animation frame.
gameLoop(side, timestamp, rnd1, rnd2, d) ==
  /\ animationFrameId[side]
  /\ gameEngine[side] # Null
  /\ Abs(2 * gameEngine[side].ball.y - settings.fieldHeight) <= settings.fieldHeight + 2 * MaxOvershoot
  /\ LET r == update(side, Context(gameEngine[side], TRUE), timestamp, rnd1, rnd2, d)
         c == r.c
         out == IF isSourceOfTruth(side, c.g) THEN Append(c.out, BallMessage(c.g.ball)) ELSE c.out
     IN  /\ Send(side, out)
         /\ gameEngine' = [gameEngine EXCEPT ![side] = c.g]
         /\ ui' = [ui EXCEPT ![side].playAgainBtn = @ \/ ~c.frame]
  /\ animationFrameId' = [animationFrameId EXCEPT ![side] = TRUE]
  /\ LET ahead == IF side = "host" THEN skew + 1 ELSE skew - 1
     IN  IF animationFrameId[Other(side)]
         THEN Abs(ahead) <= MaxSkew /\ skew' = ahead
         ELSE skew' = skew
  /\ UNCHANGED <<countdowns, clicks, moves>>

\* app.js handleTouchMove: the pointer moves to game coordinate x.
handleTouchMove(side, x) ==
  /\ gameEngine[side] # Null
  /\ gameEngine[side].isPlaying /\ ~gameEngine[side].isPaused
  /\ moves < MaxMoves
  /\ moves' = moves + 1
  /\ LET g == updatePaddlePosition(gameEngine[side], x, TRUE)
     IN  /\ gameEngine' = [gameEngine EXCEPT ![side] = g]
         /\ Send(side, <<[type |-> "paddle", data |-> [x |-> g.localPlayer.paddle.x]]>>)
  /\ UNCHANGED <<animationFrameId, countdowns, ui, skew, clicks>>

\* app.js handleMessage(message), for the message at the head of the channel.
handleMessage(side) ==
  /\ channel[side] # <<>>
  /\ LET message == Head(channel[side])
         rest == [channel EXCEPT ![side] = Tail(@)]
         engine == gameEngine[side]
     IN  IF message.type = "startCountdown"
         THEN /\ startCountdown(side)
              /\ channel' = rest
              /\ UNCHANGED <<gameEngine, animationFrameId, skew, clicks, moves>>
         ELSE IF engine = Null
         THEN /\ channel' = rest
              /\ UNCHANGED <<gameEngine, animationFrameId, countdowns, ui, skew, clicks, moves>>
         ELSE
           LET c0 == Context(engine, animationFrameId[side])
               c == CASE message.type = "ball" ->
                           [c0 EXCEPT !.g = updateFromRemote_ball(engine,
                               [message.data EXCEPT !.y = settings.fieldHeight - @,
                                                    !.velocityY = -@])]
                      [] message.type = "paddle" ->
                           [c0 EXCEPT !.g = updateFromRemote_remotePaddle(engine, message.data)]
                      [] message.type = "score" ->
                           LET g == updateFromRemote_score(engine, message.data)
                           IN  updateScore(side, [c0 EXCEPT !.g = g],
                                           g.localPlayer.score, g.remotePlayer.score)
                      [] message.type = "gameOver" ->
                           handleGameOver(side, c0, message.data.localWon)
                      [] OTHER -> c0
           IN  /\ Len(rest[Other(side)]) + Len(c.out) <= MaxQueue
               /\ channel' = [rest EXCEPT ![Other(side)] = @ \o c.out]
               /\ gameEngine' = [gameEngine EXCEPT ![side] = c.g]
               /\ animationFrameId' = [animationFrameId EXCEPT ![side] = c.frame]
               /\ ui' = [ui EXCEPT ![side].playAgainBtn = @ \/ message.type = "gameOver"]
               /\ UNCHANGED <<countdowns, skew, clicks, moves>>

\* Whether the handler that produced `log` ran the engine function fn.
Ran(fn, log) == \E i \in 1..Len(log) : log[i].fn = fn

\* A random draw is enumerated only in a run that consumes it.
DrawsIf(consumed, draws) == IF consumed THEN draws ELSE {CHOOSE x \in draws : TRUE}

AnyRandom == CHOOSE r \in RandomDraws : TRUE

AnyServe == CHOOSE d \in ServeDraws : TRUE

\* The inputs of one animation frame on one side: the timestamp, and the
\* random draws of the serve and of the paddle hit where the update makes them.
FrameInputs(side) ==
  LET c0 == Context(IF gameEngine[side] = Null THEN createInitialGameState ELSE gameEngine[side], TRUE)
      serves(t) == Ran("initBallMovement", update(side, c0, t, AnyRandom, AnyRandom, AnyServe).c.log)
      hits(t, d) == Ran("handlePaddleCollision", update(side, c0, t, AnyRandom, AnyRandom, d).c.log)
  IN  UNION { UNION { { [t |-> t, d |-> d, r |-> r] : r \in DrawsIf(hits(t, d), RandomDraws) } :
                      d \in DrawsIf(serves(t), ServeDraws) } :
              t \in Timestamps }

\* One animation frame on one side, with the frame's inputs.
Frame(side) == \E in \in FrameInputs(side) : gameLoop(side, in.t, in.r, in.r, in.d)

\* The end of a countdown on one side; only the guest's start draws a serve.
CountdownEnd(side) ==
  \E now \in Timestamps, d \in DrawsIf(side # "host", ServeDraws) :
    startGameAfterCountdown(side, now, d)

Next ==
  \/ \E side \in Side : startGame(side) /\ UNCHANGED connVars
  \/ \E side \in Side : CountdownEnd(side) /\ UNCHANGED connVars
  \/ \E side \in Side : Frame(side) /\ UNCHANGED connVars
  \/ \E side \in Side, x \in PointerX : handleTouchMove(side, x) /\ UNCHANGED connVars
  \/ \E side \in Side : handleMessage(side) /\ UNCHANGED connVars

Spec == Init /\ [][Next]_vars

\* What happens without the players: the countdown's timers fire and a
\* message that has arrived is handled.  Animation frames carry no such
\* promise: the browser runs none while the page is hidden.
GameRuns ==
  \A side \in Side :
    /\ WF_vars(CountdownEnd(side))
    /\ WF_vars(handleMessage(side))

FairSpec == Spec /\ GameRuns

(* ---------------------- connection lifecycle ------------------------ *)

\* Payloads in flight to one side.
MaxWire == 1

\* A handler has run on side: its record is stored and what it handed to
\* RTCDataChannel.send is in flight to the other side.
Handled(side, c) ==
  /\ Len(wire[Other(side)]) + Len(c.out) <= MaxWire
  /\ link' = [link EXCEPT ![side] = c.k]
  /\ wire' = [wire EXCEPT ![Other(side)] = @ \o c.out]
  /\ UNCHANGED <<vars, signaling>>

\* The Peer of side exists and has not been destroyed.
Alive(side) == link[side].connectionState # "new" /\ ~link[side].destroyed

\* app.js handleHostGame / handleJoinGame: connection.initAsHost() or
\* initAsGuest() right after `new Connection`.
initConnection(side) ==
  /\ link[side].connection /\ link[side].connectionState = "new"
  /\ Handled(side, Handler(initPeer(link[side], side = "host")))

\* The guest's RTCPeerConnection announces the host's data channel.
DataChannelEvent(side) ==
  /\ side = "guest" /\ Alive(side) /\ link[side].readyState = "none"
  /\ \E ready \in {"connecting", "open"}, queued \in BOOLEAN :
       /\ queued => ready = "open"
       /\ Handled(side, ondatachannel(Handler(link[side]), ready, queued))

\* The data channel becomes open; its open event is queued.
ChannelOpens(side) ==
  /\ link[side].readyState = "connecting"
  /\ Handled(side, Handler([link[side] EXCEPT !.readyState = "open", !.openPending = TRUE]))

\* The queued open event is dispatched.
OpenEvent(side) ==
  /\ link[side].openPending
  /\ Handled(side, onopen(Handler(link[side])))

\* connectionState 'connected', iceConnectionState 'connected' or 'completed',
\* or the answer accepted by setRemoteDescription.
IceConnected(side) ==
  /\ Alive(side)
  /\ Handled(side, _checkDataChannelState(Handler(link[side])))

\* iceConnectionState 'disconnected' or 'failed'.
IceDisconnected(side) ==
  /\ Alive(side)
  /\ Handled(side, _handleDisconnect(Handler(link[side])))

\* The data channel closes; its close event is queued.
ChannelCloses(side) ==
  /\ Alive(side) /\ link[side].readyState \in {"connecting", "open"}
  /\ Handled(side, Handler([link[side] EXCEPT !.readyState = "closed", !.closePending = TRUE]))

\* The queued close event is dispatched.
CloseEvent(side) ==
  /\ link[side].closePending
  /\ Handled(side, _handleDisconnect(Handler([link[side] EXCEPT !.closePending = FALSE])))

\* The data channel, a signalling step or the peer connection reports an error.
ErrorEvent(side) ==
  /\ link[side].connectionState # "new"
  /\ \E error \in Errors : Handled(side, _handleError(Handler(link[side]), error))

\* The 30 s timer of setupPeerEvents fires.
AttemptTimeout(side) ==
  /\ link[side].timeoutPending
  /\ Handled(side, connectionAttemptTimeout(Handler(link[side])))

\* The 2 s interval of _setupPingInterval fires.
PingTick(side) ==
  /\ link[side].pingInterval
  /\ Handled(side, pingTick(Handler(link[side])))

\* app.js handleTouchMove: `if (connection) connection.sendMessage(...)`.
AppSend(side) ==
  /\ link[side].connection
  /\ Handled(side, sendMessage(Handler(link[side]), PaddleMessage))

\* The data channel of side dispatches a message event: Peer's onmessage
\* passes event.data to the 'data' handler. A channel that is not open drops
\* what arrives.
MessageEvent(side) ==
  /\ wire[side] # <<>>
  /\ LET c == IF link[side].readyState = "open"
              THEN onData(Handler(link[side]), Head(wire[side]))
              ELSE Handler(link[side])
     IN  /\ Len(wire[Other(side)]) + Len(c.out) <= MaxWire
         /\ link' = [link EXCEPT ![side] = c.k]
         /\ wire' = [wire EXCEPT ![side] = Tail(@), ![Other(side)] = @ \o c.out]
         /\ UNCHANGED <<vars, signaling>>

\* Largest timestamp carried by a ping that arrives.
MaxPingTimestamp == 2

\* The payloads the remote end of the data channel may deliver: the texts of
\* a ping with any timestamp, of a pong and of a paddle message, the text of
\* a ping without data, a text that is not JSON, and binary data.
InboundPayloads ==
  { JSON_stringify([type |-> "ping", data |-> [timestamp |-> t]]) : t \in 0..MaxPingTimestamp }
  \cup { JSON_stringify(Pong), JSON_stringify(PaddleMessage) }
  \cup { JSON_stringify([type |-> "ping"]), [kind |-> "string", content |-> NotJSON] }
  \cup { TextEncoder_encode(JSON_stringify(PaddleMessage)) }

\* The open data channel of side dispatches a message event with a payload
\* that the remote end has sent.
InboundMessage(side) ==
  /\ link[side].readyState = "open"
  /\ \E data \in InboundPayloads : Handled(side, onData(Handler(link[side]), data))

ConnInit ==
  /\ gameEngine = [s \in Side |-> Null]
  /\ animationFrameId = [s \in Side |-> FALSE]
  /\ countdowns = [s \in Side |-> 0]
  /\ ui = [s \in Side |-> [startGameBtn |-> FALSE, playAgainBtn |-> FALSE]]
  /\ channel = [s \in Side |-> <<>>]
  /\ skew = 0
  /\ clicks = 0
  /\ moves = 0
  /\ link = [s \in Side |-> NewConnection]
  /\ wire = [s \in Side |-> <<>>]
  /\ signaling = [s \in Side |-> NoSignaling]

ConnNext ==
  \/ \E side \in Side : initConnection(side)
  \/ \E side \in Side : DataChannelEvent(side)
  \/ \E side \in Side : ChannelOpens(side)
  \/ \E side \in Side : OpenEvent(side)
  \/ \E side \in Side : IceConnected(side)
  \/ \E side \in Side : IceDisconnected(side)
  \/ \E side \in Side : ChannelCloses(side)
  \/ \E side \in Side : CloseEvent(side)
  \/ \E side \in Side : ErrorEvent(side)
  \/ \E side \in Side : AttemptTimeout(side)
  \/ \E side \in Side : PingTick(side)
  \/ \E side \in Side : AppSend(side)
  \/ \E side \in Side : MessageEvent(side)
  \/ \E side \in Side : InboundMessage(side)

ConnSpec == ConnInit /\ [][ConnNext]_<<vars, connVars>>

(* ------------------------ offer and answer -------------------------- *)

\* The session description the Peer of side creates.
Sdp(side) == IF side = "host" THEN "v=0 offer" ELSE "v=0 answer"

\* Texts that are no signalling envelope: a bare session description, the
\* JSON text null and the JSON text {}.
MalformedInputs ==
  { RawText("v=0 offer"),
    [kind |-> "string", content |-> JSONNull, raw |-> "null"],
    [kind |-> "string", content |-> EmptyObject, raw |-> "{}"] }

\* What the user can enter on side: the envelope the other side has shown,
\* or something else.
Inputs(side) ==
  MalformedInputs \cup
  (IF signaling[Other(side)].promise = "resolved" THEN {signaling[Other(side)].envelope} ELSE {})

\* The errors with which setRemoteDescription rejects a description.
RejectionErrors(side) ==
  { [message |-> "Failed to set remote " \o RemoteType(side) \o " sdp"],
    [message |-> "Invalid session description"] }

\* A step of the exchange on side: its Connection and its signalling record
\* are stored.
Signalled(side, k, g) ==
  /\ link' = [link EXCEPT ![side] = k]
  /\ signaling' = [signaling EXCEPT ![side] = g]
  /\ UNCHANGED <<vars, wire>>

\* app.js initHost: connection.initAsHost().
InitAsHost ==
  /\ link["host"].connection /\ link["host"].connectionState = "new"
  /\ Signalled("host", initPeer(link["host"], TRUE),
               [NoSignaling EXCEPT !.promise = "pending", !.ceiling = TRUE])

\* app.js submitOffer: connection.initAsGuest(offerValue).
InitAsGuest ==
  /\ link["guest"].connection /\ link["guest"].connectionState = "new"
  /\ \E text \in Inputs("guest") :
       LET k == initPeer(link["guest"], FALSE)
           g == [NoSignaling EXCEPT !.promise = "pending", !.ceiling = TRUE]
       IN  Signalled("guest", k, processSignalingData(k, g, "guest", text))

\* app.js submitAnswer: connection.processAnswer(answer).
ProcessAnswer ==
  /\ link["host"].connection /\ link["host"].peer
  /\ signaling["host"].input = NoText
  /\ \E text \in Inputs("host") :
       Signalled("host", link["host"],
                 processSignalingData(link["host"], signaling["host"], "host", text))

\* The Peer emits its session description: the host's offer after _init, the
\* guest's answer once the offer is set.
PeerDescription(side) ==
  /\ Alive(side) /\ signaling[side].promise # "none"
  /\ signaling[side].description = ""
  /\ side = "guest" => signaling[side].accepted
  /\ Signalled(side, link[side],
               onSignal(signaling[side], side, [type |-> LocalType(side), sdp |-> Sdp(side)]))

\* The Peer emits an ICE candidate.
PeerCandidate(side) ==
  /\ Alive(side) /\ signaling[side].promise # "none"
  /\ Len(signaling[side].iceCandidates) < MaxCandidates
  /\ \E candidate \in 1..MaxCandidates :
       /\ \A i \in 1..Len(signaling[side].iceCandidates) :
            signaling[side].iceCandidates[i].candidate # candidate
       /\ Signalled(side, link[side],
                    onSignal(signaling[side], side,
                             [type |-> "candidate", candidate |-> RTCIceCandidate(candidate)]))

\* The 5 s timer fires.
CeilingTimer(side) ==
  /\ signaling[side].ceiling
  /\ Signalled(side, link[side], ceilingTimeout(signaling[side], side))

\* The 500 ms timer fires.
FeedTimer(side) ==
  /\ signaling[side].feedArmed
  /\ Signalled(side, link[side], feedTimeout(link[side], signaling[side]))

\* setRemoteDescription succeeds; for an answer the Peer then looks at its
\* data channel.
RemoteDescriptionSet(side) ==
  /\ Alive(side) /\ signaling[side].awaiting
  /\ Signalled(side,
               IF side = "host" THEN _checkDataChannelState(Handler(link[side])).k ELSE link[side],
               [signaling[side] EXCEPT !.awaiting = FALSE, !.accepted = TRUE])

\* setRemoteDescription fails: Peer.signal passes the error to _handleError.
RemoteDescriptionRejected(side) ==
  /\ signaling[side].awaiting
  /\ \E error \in RejectionErrors(side) :
       Signalled(side, _handleError(Handler(link[side]), error).k,
                 [signaling[side] EXCEPT !.awaiting = FALSE])

SignalNext ==
  \/ InitAsHost
  \/ InitAsGuest
  \/ ProcessAnswer
  \/ \E side \in Side : PeerDescription(side)
  \/ \E side \in Side : PeerCandidate(side)
  \/ \E side \in Side : CeilingTimer(side)
  \/ \E side \in Side : FeedTimer(side)
  \/ \E side \in Side : RemoteDescriptionSet(side)
  \/ \E side \in Side : RemoteDescriptionRejected(side)

SignalSpec == ConnInit /\ [][SignalNext]_<<vars, connVars>>

\* The browser fires an armed timer.
TimersFire ==
  \A side \in Side :
    /\ WF_<<vars, connVars>>(CeilingTimer(side))
    /\ WF_<<vars, connVars>>(FeedTimer(side))

FairSignalSpec == SignalSpec /\ TimersFire

(* ------------------------ start of a match -------------------------- *)

\* app.js startGame from the start button of the connection screen, which
\* each player can press until a countdown hides the screen.
pressStart(side) ==
  /\ ui[side].startGameBtn
  /\ Send(side, <<[type |-> "startCountdown", data |-> [timestamp |-> 0]]>>)
  /\ startCountdown(side)
  /\ UNCHANGED <<gameEngine, animationFrameId, skew, clicks, moves>>

StartNext ==
  \/ \E side \in Side : pressStart(side) /\ UNCHANGED connVars
  \/ \E side \in Side : CountdownEnd(side) /\ UNCHANGED connVars
  \/ \E side \in Side : Frame(side) /\ UNCHANGED connVars
  \/ \E side \in Side : handleMessage(side) /\ UNCHANGED connVars

StartSpec == Init /\ [][StartNext]_vars

(* ------------------------- engine alone ----------------------------- *)

\* GameEngine.pauseGame.
pauseGame(g) == [g EXCEPT !.isPaused = TRUE]

\* GameEngine.resumeGame; now stands for performance.now().
resumeGame(g, now) == [g EXCEPT !.isPaused = FALSE, !.lastUpdateTime = now]

\* The x coordinates handed to updatePaddlePosition: left of the field,
\* below and above the range of the paddle, inside it and right of the field.
PaddleInputs == (-1)..(settings.fieldWidth + 1)

\* The engines the calls start from: a fresh GameEngine whose ball is at
\* rest or has been served, stopped or playing, paused or not.
EngineStates ==
  { [createInitialGameState EXCEPT !.ball = ball, !.isPlaying = playing, !.isPaused = paused] :
      ball \in {createInitialGameState.ball}
               \cup {initBallMovement(createInitialGameState.ball, toLocal, d) :
                       toLocal \in BOOLEAN, d \in ServeDraws},
      playing \in BOOLEAN,
      paused \in BOOLEAN }

\* One client holds a GameEngine; nothing is connected to its callbacks'
\* messages.
EngineInit ==
  /\ gameEngine \in { [s \in Side |-> IF s = side THEN g ELSE Null] :
                        side \in Side, g \in EngineStates }
  /\ animationFrameId = [s \in Side |-> FALSE]
  /\ countdowns = [s \in Side |-> 0]
  /\ ui = [s \in Side |-> [startGameBtn |-> FALSE, playAgainBtn |-> FALSE]]
  /\ channel = [s \in Side |-> <<>>]
  /\ skew = 0
  /\ clicks = 0
  /\ moves = 0
  /\ link = [s \in Side |-> Established(s)]
  /\ wire = [s \in Side |-> <<>>]
  /\ signaling = [s \in Side |-> NoSignaling]

\* A call on the engine of side leaves it in state g.
Called(side, g) ==
  /\ gameEngine[side] # Null
  /\ gameEngine' = [gameEngine EXCEPT ![side] = g]
  /\ UNCHANGED <<animationFrameId, countdowns, ui, channel, skew, clicks, moves, connVars>>

\* gameEngine.update(timestamp).
CallUpdate(side) ==
  /\ gameEngine[side] # Null
  /\ Abs(2 * gameEngine[side].ball.y - settings.fieldHeight) <= settings.fieldHeight + 2 * MaxOvershoot
  /\ \E in \in FrameInputs(side) :
       Called(side, update(side, Context(gameEngine[side], TRUE), in.t, in.r, in.r, in.d).c.g)

\* gameEngine.startGame().
CallStartGame(side) ==
  /\ gameEngine[side] # Null
  /\ \E now \in Timestamps, d \in DrawsIf(side # "host", ServeDraws) :
       Called(side, GameEngine_startGame(side, gameEngine[side], now, d))

\* gameEngine.pauseGame().
CallPauseGame(side) ==
  /\ gameEngine[side] # Null
  /\ Called(side, pauseGame(gameEngine[side]))

\* gameEngine.resumeGame().
CallResumeGame(side) ==
  /\ gameEngine[side] # Null
  /\ \E now \in Timestamps : Called(side, resumeGame(gameEngine[side], now))

\* gameEngine.updatePaddlePosition(x, isLocalPaddle).
CallUpdatePaddlePosition(side) ==
  /\ gameEngine[side] # Null
  /\ \E x \in PaddleInputs, isLocalPaddle \in BOOLEAN :
       Called(side, updatePaddlePosition(gameEngine[side], x, isLocalPaddle))

EngineNext ==
  \/ \E side \in Side : CallUpdate(side)
  \/ \E side \in Side : CallStartGame(side)
  \/ \E side \in Side : CallPauseGame(side)
  \/ \E side \in Side : CallResumeGame(side)
  \/ \E side \in Side : CallUpdatePaddlePosition(side)

EngineSpec == EngineInit /\ [][EngineNext]_<<vars, connVars>>

(* ------------------------- what is checked -------------------------- *)

\* The engine of `side` is constructed and its game is being played.
Playing(side) == gameEngine[side] # Null /\ gameEngine[side].isPlaying

\* Every result gameEngine.update(timestamp) can have in the current state
\* of `side`, over the inputs of a frame.
updateOutcomes(side) ==
  { update(side, Context(gameEngine[side], TRUE), in.t, in.r, in.r, in.d) : in \in FrameInputs(side) }

\* How many times the handler that produced `log` ran fn.
Count(fn, log) == Cardinality({i \in 1..Len(log) : log[i].fn = fn})

\* The entries of `log` in which handleBallOut scored a ball out of `edge`.
Scored(log, edge) == {i \in 1..Len(log) : log[i].fn = "handleBallOut" /\ log[i].edge = edge}

\* C1: while both engines play, isSourceOfTruth() is never true on the host
\* and on the guest at once.
C1_NeverBothSource ==
  (Playing("host") /\ Playing("guest")) =>
    ~(isSourceOfTruth("host", gameEngine["host"]) /\ isSourceOfTruth("guest", gameEngine["guest"]))

\* C2: an update() that starts while isSourceOfTruth() is false on the engine
\* runs neither handlePaddleCollision nor handleBallOut.
C2_NonSourceRunsNoCollision ==
  \A side \in Side :
    (Playing(side) /\ ~isSourceOfTruth(side, gameEngine[side])) =>
      \A o \in updateOutcomes(side) :
        ~Ran("handlePaddleCollision", o.c.log) /\ ~Ran("handleBallOut", o.c.log)

\* C3: while both engines play, at least one of them is the source of truth.
C3_SomeSource ==
  (Playing("host") /\ Playing("guest")) =>
    (isSourceOfTruth("host", gameEngine["host"]) \/ isSourceOfTruth("guest", gameEngine["guest"]))

\* C4: the update() in which the ball crosses the local edge scores it once
\* (remotePlayer.score + 1, one onScoreUpdate), and an update() that starts
\* with the ball already beyond the local edge does not score it again.
C4_CrossingScoredOnce ==
  \A side \in Side :
    Playing(side) =>
      \A in \in FrameInputs(side) :
        LET g == gameEngine[side]
            edge == settings.fieldHeight + settings.ballRadius
            log == update(side, Context(g, TRUE), in.t, in.r, in.r, in.d).c.log
            scored == Scored(log, "local")
            crosses == /\ g.ball.y <= edge
                       /\ g.ball.y + g.ball.velocityY * DeltaTime(in.t, g.lastUpdateTime) > edge
        IN  /\ (g.ball.y > edge => scored = {})
            /\ (crosses => /\ Cardinality(scored) = 1
                           /\ \A i \in scored : log[i].remote = g.remotePlayer.score + 1
                           /\ Count("onScoreUpdate", log) = 1)

\* C5: an update() that scores a point short of winScore leaves the ball
\* inside the field, moving toward the side that lost the point.
C5_ServedTowardLoser ==
  \A side \in Side :
    Playing(side) =>
      \A o \in updateOutcomes(side) :
        \A i \in Scored(o.c.log, "local") \cup Scored(o.c.log, "remote") :
          ~Ran("onGameOver", o.c.log) =>
            LET b == o.c.g.ball
            IN  /\ b.y >= -settings.ballRadius
                /\ b.y <= settings.fieldHeight + settings.ballRadius
                /\ (o.c.log[i].edge = "local" => b.velocityY > 0)
                /\ (o.c.log[i].edge = "remote" => b.velocityY < 0)

\* C6: once every message in flight has been delivered, the two playing
\* engines hold the same score pair, each from its own perspective.
C6_ScoresConverge ==
  (Playing("host") /\ Playing("guest") /\ channel["host"] = <<>> /\ channel["guest"] = <<>>) =>
    /\ gameEngine["host"].localPlayer.score = gameEngine["guest"].remotePlayer.score
    /\ gameEngine["host"].remotePlayer.score = gameEngine["guest"].localPlayer.score

\* C7: applying the score message {local, remote} at the head of the channel
\* leaves the receiver's local score at the sender's remote value and its
\* remote score at the sender's local value.
C7_ScoreSwapped ==
  \A side \in Side :
    (gameEngine[side] # Null /\ channel[side] # <<>> /\ Head(channel[side]).type = "score") =>
      LET data == Head(channel[side]).data
          g == updateFromRemote_score(gameEngine[side], data)
      IN  g.localPlayer.score = data.remote /\ g.remotePlayer.score = data.local

\* C8: an update() whose handleBallOut leaves a score at winScore invokes
\* onGameOver exactly once and leaves isPlaying false; and while isPlaying
\* is false every update() returns false and changes nothing.
C8_GameOverOnce ==
  \A side \in Side :
    gameEngine[side] # Null =>
      \A o \in updateOutcomes(side) :
        IF gameEngine[side].isPlaying
        THEN \A i \in Scored(o.c.log, "local") \cup Scored(o.c.log, "remote") :
               (o.c.log[i].local >= settings.winScore \/ o.c.log[i].remote >= settings.winScore)
               => (Count("onGameOver", o.c.log) = 1 /\ ~o.c.g.isPlaying)
        ELSE o.result = FALSE /\ o.c = Context(gameEngine[side], TRUE)

\* C8's case: the host's game has ended in its own update() and its game
\* loop is still scheduled, so update() keeps being called.
C8_Witness ==
  /\ gameEngine["host"] # Null
  /\ ~gameEngine["host"].isPlaying
  /\ ui["host"].playAgainBtn
  /\ animationFrameId["host"]

C11_OnlyForwardThenDisconnected ==
  [][\A s \in Side :
       LET before == link[s].connectionState
           after  == link'[s].connectionState
       IN  /\ before # after =>
                \/ <<before, after>> \in {<<"new", "connecting">>, <<"connecting", "connected">>}
                \/ after = "disconnected"
           /\ before = "disconnected" =>
                (after = "disconnected" /\ ~link'[s].isConnected)]_<<vars, connVars>>

\* C12: for one Peer, the Connection invokes onConnected() at most once,
\* whatever the order of the data channel's open event, the ICE and
\* connection state changes and the acceptance of the answer.
C12_OnConnectedAtMostOnce ==
  \A s \in Side : link[s].onConnectedCalls <= 1

\* The handlers through which a stream close or an error reaches the
\* Connection of side s, applied to its present state.
CloseOrErrorOutcomes(s) ==
  { _handleDisconnect(Handler(link[s])) } \cup
  { _handleError(Handler(link[s]), error) : error \in Errors }

\* C13: once a Connection that holds its Peer has reached connected, the
\* first stream close or error invokes onDisconnected(), and over the whole
\* life of the Connection onDisconnected() is invoked exactly once, whatever
\* close or error events (fatal-pattern errors included) follow.
C13_DisconnectedExactlyOnce ==
  \A s \in Side :
    /\ link[s].onDisconnectedCalls <= 1
    /\ (link[s].connectionState = "connected" /\ link[s].peer) =>
         \A c \in CloseOrErrorOutcomes(s) :
           c.k.onDisconnectedCalls = link[s].onDisconnectedCalls + 1
    /\ (link[s].everConnected /\ link[s].connectionState = "disconnected") =>
         /\ link[s].onDisconnectedCalls = 1
         /\ \A c \in CloseOrErrorOutcomes(s) : c.k.onDisconnectedCalls = 1

\* A connected client was disconnected by a close or an error and has been
\* notified once; the close event of its data channel is still to come.
C13_Witness ==
  \E s \in Side :
    /\ link[s].everConnected
    /\ link[s].connectionState = "disconnected"
    /\ link[s].onDisconnectedCalls = 1
    /\ link[s].closePending

\* The step in which the Connection of side s becomes disconnected.
BecomesDisconnected(s) ==
  link[s].connectionState # "disconnected" /\ link'[s].connectionState = "disconnected"

\* The step is the firing of the 30 s timer of side s: the timer is no longer
\* armed and its handle has not been cleared.
TimerFired(s) ==
  link[s].timeoutPending /\ ~link'[s].timeoutPending /\ link'[s].connectionAttemptTimeout

\* The step invokes onDisconnected() on side s.
InvokesOnDisconnected(s) ==
  link'[s].onDisconnectedCalls = link[s].onDisconnectedCalls + 1

\* C14 as stated: every transition into disconnected caused by the 30 s
\* attempt timeout, a stream close or a fatal error invokes onDisconnected().
C14_EveryFatalTransitionNotifies ==
  [][\A s \in Side : BecomesDisconnected(s) => InvokesOnDisconnected(s)]_<<vars, connVars>>

\* C14: every transition into disconnected caused by a stream close or by
\* an error invokes onDisconnected(); the transition made by the 30 s attempt
\* timeout does not.
C14_CloseAndErrorNotify ==
  [][\A s \in Side :
       BecomesDisconnected(s) => (InvokesOnDisconnected(s) <=> ~TimerFired(s))]_<<vars, connVars>>

\* The host's attempt has timed out without a callback, and the guest was
\* disconnected by a fatal-pattern error before it connected, with one.
C14_Witness ==
  /\ link["host"].connectionState = "disconnected"
  /\ link["host"].connectionAttemptTimeout
  /\ link["host"].onDisconnectedCalls = 0
  /\ link["guest"].connectionState = "disconnected"
  /\ ~link["guest"].everConnected
  /\ link["guest"].onDisconnectedCalls = 1

\* The handler leaves the connection state, isConnected and the number of
\* onDisconnected() calls of side s as they are.
Untouched(s, c) ==
  /\ c.k.connectionState = link[s].connectionState
  /\ c.k.isConnected = link[s].isConnected
  /\ c.k.onDisconnectedCalls = link[s].onDisconnectedCalls

\* The errors of Errors whose message contains one of the fatal patterns.
FatalPatternErrors ==
  { [message |-> "Failed to set remote answer sdp"],
    [message |-> "ICE failed, see about:webrtc"] }

\* C15: on a Connection that has never been connected, a stream close, an
\* error that matches no fatal pattern and the attempt timeout do not invoke
\* onDisconnected(), and a close or such an error leaves the state and
\* isConnected unchanged; a fatal-pattern error on a live Peer invokes it.
C15_OnlyFatalErrorBeforeConnected ==
  \A s \in Side :
    (~link[s].everConnected /\ link[s].connectionState # "new") =>
      /\ Untouched(s, _handleDisconnect(Handler(link[s])))
      /\ Untouched(s, onClose(Handler(link[s])))
      /\ connectionAttemptTimeout(Handler(link[s])).k.onDisconnectedCalls
           = link[s].onDisconnectedCalls
      /\ \A error \in Errors :
           IF error \in FatalPatternErrors
           THEN ~link[s].destroyed =>
                  LET c == _handleError(Handler(link[s]), error)
                  IN  /\ c.k.onDisconnectedCalls = link[s].onDisconnectedCalls + 1
                      /\ c.k.connectionState = "disconnected"
           ELSE /\ Untouched(s, _handleError(Handler(link[s]), error))
                /\ Untouched(s, onError(Handler(link[s]), error))

\* The data channel of a client that is still connecting has closed and its
\* close event has been dispatched; the client is connecting as before.
C15_Witness ==
  \E s \in Side :
    /\ ~link[s].everConnected
    /\ link[s].connectionState = "connecting"
    /\ link[s].readyState = "closed"
    /\ ~link[s].closePending
    /\ link[s].onDisconnectedCalls = 0

\* The handler has made the Connection of side s disconnected and has
\* invoked onDisconnected().
Notified(s, c) ==
  /\ c.k.connectionState = "disconnected"
  /\ ~c.k.isConnected
  /\ c.k.onDisconnectedCalls = link[s].onDisconnectedCalls + 1

\* C16: every error that the Peer of a connected Connection raises, whether
\* or not its message matches a fatal pattern, sets the state to
\* disconnected and isConnected to false and invokes onDisconnected().
C16_AnyErrorWhileConnected ==
  \A s \in Side :
    (link[s].connectionState = "connected" /\ link[s].peer) =>
      \A error \in Errors :
        /\ Notified(s, _handleError(Handler(link[s]), error))
        /\ Notified(s, onError(Handler(link[s]), error))

\* A client is connected and an error without a fatal pattern disconnects it.
C16_Witness ==
  \E s \in Side :
    /\ link[s].connectionState = "connected" /\ link[s].peer
    /\ \E error \in Errors \ FatalPatternErrors :
         Notified(s, _handleError(Handler(link[s]), error))

\* C17: a message for which sendMessage returned true reaches the other
\* Connection's onMessage with the same type and data: when the payload at
\* the head of the wire is dispatched to an open data channel, the 'data'
\* handler passes exactly the message that was sent to onMessage.
C17_SentIsDelivered ==
  \A s \in Side :
    (wire[s] # <<>> /\ link[s].readyState = "open") =>
      onData(Handler(link[s]), Head(wire[s])).delivered
        = << JSON_parse(Head(wire[s]).content) >>

\* The messages a client sends.
Messages == {Ping, Pong, PaddleMessage}

\* C18: whenever the connection state is not connected (new, connecting or
\* disconnected), sendMessage returns false, hands nothing to the Peer and
\* keeps nothing for later: the message is dropped.
C18_NotConnectedDrops ==
  \A s \in Side :
    link[s].connectionState # "connected" =>
      \A message \in Messages :
        LET c == sendMessage(Handler(link[s]), message)
        IN  ~c.result /\ c.out = <<>> /\ c.k = link[s]

\* The application still holds a Connection whose attempt has timed out and
\* whose Peer and data channel are open; a sendMessage call returns false.
C18_Witness ==
  \E s \in Side :
    /\ link[s].connection /\ link[s].peer
    /\ link[s].connectionState = "disconnected"
    /\ link[s].readyState = "open"
    /\ ~sendMessage(Handler(link[s]), PaddleMessage).result

\* C19: once disconnect() has returned (the Connection has let its Peer go),
\* no keepalive interval of that Connection is scheduled, also after events
\* of the Peer that were in flight, such as the data channel's open event,
\* have been dispatched.
C19_NoIntervalAfterDisconnect ==
  \A s \in Side :
    (link[s].connectionState # "new" /\ ~link[s].peer) => ~link[s].pingInterval

\* C20: a keepalive tick that fires while the Connection is not connected
\* sends no ping and cancels the interval, so once a stream close or an
\* error has ended state connected, a tick leaves no interval scheduled: at
\* most one further tick runs.
C20_AtMostOneTickAfterLeaving ==
  \A s \in Side :
    /\ ~link[s].isConnected =>
         LET c == pingTick(Handler(link[s]))
         IN  c.out = <<>> /\ ~c.k.pingInterval
    /\ link[s].leftConnected => ~pingTick(Handler(link[s])).k.pingInterval

(* -------------------- what is checked: messages --------------------- *)

\* The texts of well-formed ping and pong messages that may arrive.
KeepaliveTexts ==
  { data \in InboundPayloads :
      /\ data.kind = "string" /\ data.content # NotJSON
      /\ data.content.type \in {"ping", "pong"}
      /\ "data" \in DOMAIN data.content }

MalformedPayloads ==
  { data \in InboundPayloads :
      \/ data.kind # "string"
      \/ data.content = NotJSON
      \/ "data" \notin DOMAIN data.content }

\* C23: an inbound payload that is no valid JSON message, or whose handling
\* throws, is discarded: the connection state, isConnected and the keepalive
\* stay as they are, onDisconnected is not invoked, nothing is sent, and a
\* well-formed message that follows is delivered to onMessage.
C23_MalformedDiscarded ==
  \A s \in Side :
    link[s].readyState = "open" =>
      \A data \in MalformedPayloads :
        LET c == onData(Handler(link[s]), data)
        IN  /\ c.k = link[s]
            /\ c.out = <<>> /\ c.delivered = <<>>
            /\ onData(Handler(c.k), JSON_stringify(PaddleMessage)).delivered = << PaddleMessage >>

\* A connected client whose keepalive runs receives a text that is not JSON
\* and stays connected.
C23_Witness ==
  \E s \in Side :
    /\ link[s].readyState = "open" /\ link[s].connectionState = "connected"
    /\ link[s].pingInterval
    /\ onData(Handler(link[s]), [kind |-> "string", content |-> NotJSON]).k.connectionState
         = "connected"

(* ------------------- what is checked: signalling -------------------- *)

\* C24: whenever the host's Peer has emitted its session description, the
\* promise of initAsHost is eventually resolved with an offer envelope, in
\* whatever order the offer, the candidates and the 5 s timer come, also
\* when no candidate ever comes.
C24_OfferEventuallyResolved ==
  (signaling["host"].description # "") ~> (signaling["host"].promise = "resolved")

RECURSIVE CandidateSignals(_)
\* The candidate signals for a list of candidates, in its order.
CandidateSignals(candidates) ==
  IF candidates = <<>> THEN <<>>
  ELSE << [type |-> "candidate", candidate |-> Head(candidates)] >>
         \o CandidateSignals(Tail(candidates))

\* C25: when the text entered on a side is the envelope the other side has
\* produced, parsing recovers its type, sdp and candidate list: the Peer is
\* given one offer/answer signal with that type and sdp and, once the 500 ms
\* timer has run, the candidates of the envelope in their order.
C25_EnvelopeRoundTrip ==
  \A side \in Side :
    LET g == signaling[side]
        e == signaling[Other(side)].envelope
    IN  (e # NoText /\ g.input = e) =>
          /\ ~g.fallback
          /\ g.signals # <<>>
          /\ Head(g.signals) = [type |-> e.content.type, sdp |-> e.content.sdp]
          /\ g.feedArmed => (g.feed = e.content.iceCandidates /\ Len(g.signals) = 1)
          /\ (~g.feedArmed /\ ~g.threw) =>
               g.signals = << [type |-> e.content.type, sdp |-> e.content.sdp] >>
                             \o CandidateSignals(e.content.iceCandidates)

\* The guest was given the host's envelope with two candidates, and its Peer
\* has received the offer and both candidates.
C25_Witness ==
  /\ signaling["host"].promise = "resolved"
  /\ signaling["guest"].input = signaling["host"].envelope
  /\ Len(signaling["host"].envelope.content.iceCandidates) = MaxCandidates
  /\ ~signaling["guest"].feedArmed
  /\ Len(signaling["guest"].signals) = 1 + MaxCandidates

\* C26: an input that is no well-formed signalling envelope, be it text
\* that is not JSON or a JSON value that is no envelope object, is taken by
\* initAsGuest and processAnswer as a raw session description without
\* candidates: the Peer is given the whole input as sdp, and nothing throws.
C26_MalformedIsRawDescription ==
  \A side \in Side :
    LET g == signaling[side]
    IN  g.input \in MalformedInputs =>
          /\ g.promise # "rejected" /\ ~g.threw
          /\ g.signals = << [type |-> RemoteType(side), sdp |-> g.input.raw] >>
          /\ ~g.feedArmed /\ g.feed = <<>>

\* The step in which setRemoteDescription rejects the description given on side.
DescriptionRejected(side) ==
  /\ signaling[side].awaiting
  /\ ~signaling'[side].awaiting /\ ~signaling'[side].accepted

\* C27: when the Peer rejects the session description that was entered, the
\* pending initAsGuest operation is rejected, so that the caller can ask for
\* the signalling data again; it does not stay pending.
C27_RejectedDescriptionRejectsInit ==
  [][DescriptionRejected("guest") => signaling'["guest"].promise = "rejected"]_<<vars, connVars>>

\* disconnect() has been called on the Connection of side and has returned.
Disconnected(side) == link[side].connectionState # "new" /\ ~link[side].peer

\* C28: after disconnect() no timer callback of the Connection does
\* anything: the attempt timeout and the keepalive interval are cancelled,
\* and the 5 s ceiling and the 500 ms candidate feed, if they still fire,
\* resolve no promise, call no Peer, change no state and do not throw.
C28_TimersInertAfterDisconnect ==
  \A side \in Side :
    Disconnected(side) =>
      /\ ~link[side].timeoutPending
      /\ ~link[side].pingInterval
      /\ signaling[side].ceiling =>
           ceilingTimeout(signaling[side], side) = [signaling[side] EXCEPT !.ceiling = FALSE]
      /\ signaling[side].feedArmed =>
           feedTimeout(link[side], signaling[side]) = [signaling[side] EXCEPT !.feedArmed = FALSE]

\* C29: after disconnect(), called in whatever state (also in state new,
\* before a Peer exists), the state is disconnected and isConnected is
\* false, and a second disconnect() changes nothing and invokes no callback.
C29_DisconnectForcesDisconnected ==
  \A s \in Side :
    LET k == disconnect(link[s])
    IN  /\ k.connectionState = "disconnected"
        /\ ~k.isConnected
        /\ disconnect(k) = k
        /\ k.onDisconnectedCalls = link[s].onDisconnectedCalls
        /\ k.onConnectedCalls = link[s].onConnectedCalls

C31_WallReflectsOnce ==
  \A side \in Side :
    Playing(side) =>
      \A in \in FrameInputs(side) :
        LET g == gameEngine[side]
            radius == settings.ballRadius
            x1 == g.ball.x + g.ball.velocityX * DeltaTime(in.t, g.lastUpdateTime)
            left == x1 - radius < 0
            right == x1 + radius > settings.fieldWidth
            c == update(side, Context(g, TRUE), in.t, in.r, in.r, in.d).c
        IN  ((left \/ right) /\ ~Ran("handlePaddleCollision", c.log)
                             /\ ~Ran("initBallMovement", c.log)
                             /\ ~Ran("onGameOver", c.log)) =>
              /\ c.g.ball.velocityX = -g.ball.velocityX
              /\ left => c.g.ball.velocityX > 0
              /\ right => c.g.ball.velocityX < 0
              /\ c.g.ball.x >= radius
              /\ c.g.ball.x <= settings.fieldWidth - radius

\* What one animation frame of side hands to connection.sendMessage, with
\* the frame's inputs in: the messages of the engine's callbacks, then the
\* ball state the game loop sends when the engine is the source of truth.
FrameMessages(side, in) ==
  LET c == update(side, Context(gameEngine[side], TRUE), in.t, in.r, in.r, in.d).c
  IN  IF isSourceOfTruth(side, c.g) THEN Append(c.out, BallMessage(c.g.ball)) ELSE c.out

\* C32: a frame in which the paddle of side returns the ball sends the
\* returned ball (now moving away from that paddle, at its new speed) to the
\* other client, on the host and on the guest.
C32_ReturnIsSent ==
  \A side \in Side :
    Playing(side) =>
      \A in \in FrameInputs(side) :
        LET g == gameEngine[side]
            c == update(side, Context(g, TRUE), in.t, in.r, in.r, in.d).c
            out == FrameMessages(side, in)
        IN  (g.ball.velocityY > 0 /\ Ran("handlePaddleCollision", c.log)) =>
              \E i \in 1..Len(out) :
                /\ out[i].type = "ball"
                /\ out[i].data.velocityY < 0
                /\ out[i].data.speed = c.g.ball.speed
                /\ out[i].data.y = c.g.ball.y

\* C33: GameEngine.startGame() at the end of a countdown serves on the host,
\* which is then the source of truth, and leaves the ball alone on the
\* guest, which is then not the source of truth.
C33_HostServesFirst ==
  \A side \in Side :
    countdowns[side] > 0 =>
      \A now \in Timestamps, d \in ServeDraws :
        LET g == IF gameEngine[side] = Null THEN createInitialGameState ELSE gameEngine[side]
            started == GameEngine_startGame(side, g, now, d)
        IN  IF side = "host"
            THEN started.ball.velocityY # 0 /\ isSourceOfTruth(side, started)
            ELSE started.ball = g.ball /\ ~isSourceOfTruth(side, started)

\* C34: while isPlaying is false or isPaused is true, update(timestamp)
\* returns false, invokes no callback and leaves the ball, the paddles, the
\* scores and lastUpdateTime as they are, for every timestamp.
C34_NoOpUnlessPlaying ==
  \A side \in Side :
    (gameEngine[side] # Null /\ (~gameEngine[side].isPlaying \/ gameEngine[side].isPaused)) =>
      \A timestamp \in Timestamps, rnd \in RandomDraws, d \in ServeDraws :
        LET g == gameEngine[side]
            r == update(side, Context(g, TRUE), timestamp, rnd, rnd, d)
        IN  /\ r.result = FALSE
            /\ r.c.g.ball = g.ball
            /\ r.c.g.localPlayer = g.localPlayer
            /\ r.c.g.remotePlayer = g.remotePlayer
            /\ r.c.g.lastUpdateTime = g.lastUpdateTime
            /\ r.c.out = <<>> /\ r.c.log = <<>>

\* C34's case: a game has been paused while the ball was under way, and
\* update() can be called on it.
C34_Witness ==
  \E side \in Side :
    /\ gameEngine[side] # Null
    /\ gameEngine[side].isPlaying /\ gameEngine[side].isPaused
    /\ gameEngine[side].ball.velocityY # 0
    /\ gameEngine[side].ball.y # settings.fieldHeight \div 2
    /\ gameEngine[side].lastUpdateTime # 0
    /\ ENABLED CallUpdate(side)

C36_PaddleClamped ==
  \A side \in Side :
    gameEngine[side] # Null =>
      \A x \in PaddleInputs :
        LET g == gameEngine[side]
            after == updatePaddlePosition(g, x, TRUE)
            lo == settings.paddleWidth \div 2
            hi == settings.fieldWidth - settings.paddleWidth \div 2
            px == after.localPlayer.paddle.x
        IN  /\ lo <= px /\ px <= hi
            /\ x < lo => px = lo
            /\ x > hi => px = hi
            /\ (lo <= x /\ x <= hi) => px = x
            /\ LocalPaddle(after).y = LocalPaddle(g).y
            /\ after = [g EXCEPT !.localPlayer.paddle.x = px]

\* C36's case: the local paddle has been moved to an end of its range,
\* which is where a pointer outside the range leaves it.
C36_Witness ==
  \E side \in Side :
    /\ gameEngine[side] # Null
    /\ gameEngine[side].localPlayer.paddle.x
         \in {settings.paddleWidth \div 2, settings.fieldWidth - settings.paddleWidth \div 2}
    /\ gameEngine[side].remotePlayer.paddle.x = settings.fieldWidth \div 2

(* ------------------- what is checked: the match --------------------- *)

\* The game-over screen of side is shown: its engine has ended the game or
\* a gameOver message has been handled.
GameOver(side) == ui[side].playAgainBtn

\* C37: once the game is over on one side, on the host or on the guest, it
\* is eventually over on the other side too.
C37_GameOverReachesPeer ==
  \A side \in Side : GameOver(side) ~> GameOver(Other(side))

\* C38: also when both players press start before either has the other's
\* startCountdown message, GameEngine.startGame() is called once per side:
\* no countdown ends on a side whose engine is already playing.
C38_StartGameOnce ==
  [][\A side \in Side :
       countdowns'[side] < countdowns[side] => ~Playing(side)]_vars

(* ------------------ what is checked: connection state --------------- *)

\* C39: in every state of a Connection, whatever connect, close and error
\* events, timer firings and disconnect() calls have led to it, isConnected
\* is true exactly when the connection state is connected.
C39_IsConnectedIffConnected ==
  \A s \in Side :
    /\ link[s].isConnected <=> link[s].connectionState = "connected"
    /\ disconnect(link[s]).isConnected <=> disconnect(link[s]).connectionState = "connected"

\* C39's case: one Connection is connected while the other, which has been
\* connected too, has been closed and disconnected.
C39_Witness ==
  \E s \in Side :
    /\ link[s].isConnected /\ link[s].connectionState = "connected"
    /\ link[Other(s)].everConnected
    /\ link[Other(s)].leftConnected
    /\ ~link[Other(s)].isConnected /\ link[Other(s)].connectionState = "disconnected"

====
